---- MODULE Spec2Model ----
\* A model of the Kattis task type of the contest management system
\* (cms/grading/tasktypes/Kattis.py): the interactive and the non-interactive
\* evaluation of one job, the reduction of the two sandboxes' results into the
\* job's result fields, and the clean-up of the scratch directories.
EXTENDS Integers, Sequences, FiniteSets, TLC

\* ------------------------------------------------------------------ bounds

\* Longest content of score_multiplier.txt that is enumerated.
MaxLen == 2
\* Capacity of one named pipe, in blocks.
PipeCapacity == 2

\* ------------------------------------------------------- program constants

\* The manager's exit codes with a meaning (Kattis.py, _extract_outcome).
EXIT_ACCEPT == 42
EXIT_REJECT == 43
\* The exit codes a process may end with: 0, an unexpected non-zero code, and
\* the two codes of the manager's vocabulary.
ExitCodes == {0, 1, EXIT_ACCEPT, EXIT_REJECT}

\* --------------------------------------------------------- python values

\* Optional values (None or a value): a sequence of length 0 or 1.
None == <<>>
Some(x) == <<x>>
\* Truth value of an optional boolean (None is falsy).
Truthy(o) == o = Some(TRUE)

\* Strings that are parsed or formatted are sequences of characters.
DigitChars == <<"0", "1", "2", "3", "4", "5", "6", "7", "8", "9">>
Digits == {DigitChars[i] : i \in 1..10}
DigitVal(c) == (CHOOSE i \in 1..10 : DigitChars[i] = c) - 1

RECURSIVE Pow10(_)
Pow10(n) == IF n = 0 THEN 1 ELSE 10 * Pow10(n - 1)

\* Floats are exact decimals: sign and magnitude in units of 1/Scale.
\* The sign is kept apart because Python has a negative zero.
Scale == Pow10(MaxLen + 1)

\* Characters the manager may put in score_multiplier.txt, and its contents.
Chars == {"0", "1", "5", ".", "-"}
Contents == UNION {[1..n -> Chars] : n \in 0..MaxLen}

Unsigned(s) == IF Len(s) > 0 /\ s[1] = "-" THEN Tail(s) ELSE s

\* float(s) raises ValueError unless s is [-]digits[.[digits]] or [-].digits
float_ok(s) ==
    LET u == Unsigned(s) IN
    /\ \A i \in 1..Len(u) : u[i] \in Digits \cup {"."}
    /\ Cardinality({i \in 1..Len(u) : u[i] = "."}) <= 1
    /\ \E i \in 1..Len(u) : u[i] \in Digits

DotPos(u) ==
    IF \E i \in 1..Len(u) : u[i] = "."
    THEN CHOOSE i \in 1..Len(u) : u[i] = "."
    ELSE Len(u) + 1

RECURSIVE Magnitude(_, _, _)
Magnitude(u, p, i) ==
    IF i > Len(u) THEN 0
    ELSE (IF i < p THEN DigitVal(u[i]) * Pow10(p - 1 - i) * Scale
          ELSE IF i > p THEN (DigitVal(u[i]) * Scale) \div Pow10(i - p)
          ELSE 0)
         + Magnitude(u, p, i + 1)

\* float(s) for a parsable s.
float(s) ==
    LET u == Unsigned(s) IN
    [neg |-> Len(s) > 0 /\ s[1] = "-", mag |-> Magnitude(u, DotPos(u), 1)]

Float(n) == [neg |-> FALSE, mag |-> n * Scale]
\* outcome > 0.0 and outcome < 1.0
GreaterThanZero(f) == ~f.neg /\ f.mag > 0
LessThanOne(f) == f.neg \/ f.mag < Scale

RECURSIVE IntDigits(_)
IntDigits(n) ==
    IF n < 10 THEN <<DigitChars[n + 1]>>
    ELSE IntDigits(n \div 10) \o <<DigitChars[(n % 10) + 1]>>

RECURSIVE PadDigits(_, _)
PadDigits(n, w) ==
    IF w = 0 THEN <<>>
    ELSE PadDigits(n \div 10, w - 1) \o <<DigitChars[(n % 10) + 1]>>

RECURSIVE FracDigits(_, _)
FracDigits(fr, w) ==
    IF w = 0 THEN <<"0">>
    ELSE IF fr % 10 = 0 THEN FracDigits(fr \div 10, w - 1)
    ELSE PadDigits(fr, w)

\* "%s" % f for a float f: str(f), the shortest decimal that reads back as f.
FormatFloat(f) ==
    (IF f.neg THEN <<"-">> ELSE <<>>)
    \o IntDigits(f.mag \div Scale) \o <<".">>
    \o FracDigits(f.mag % Scale, MaxLen + 1)

\* ------------------------------------------------- external collaborators

\* cms.grading.steps.evaluation.EVALUATION_MESSAGES.get(key).message
EVALUATION_MESSAGES ==
    [success |-> "Output is correct",
     partial |-> "Output is partially correct",
     wrong |-> "Output isn't correct",
     timeout |-> "Execution timed out",
     walltimeout |-> "Execution timed out (wall clock limit exceeded)",
     signal |-> "Execution killed (could be triggered by violating memory limits)",
     returncode |-> "Execution failed because the return code was nonzero"]

N_(message) == message

\* How a sandboxed process can end, as the sandbox reports it.
EXIT_OK == "ok"
EXIT_NONZERO_RETURN == "nonzero return"
EXIT_SIGNAL == "signal"
EXIT_TIMEOUT == "timeout"
EXIT_TIMEOUT_WALL == "wall timeout"
EXIT_SANDBOX_ERROR == "sandbox error"

\* The telemetry a sandbox can hold after its process has ended: a normal
\* termination has exit code 0, a non-zero return has a non-zero code, and
\* the other terminations record no exit code (read back as 0).
Telemetry ==
    {[exit_status |-> EXIT_OK, exit_code |-> 0]}
    \cup {[exit_status |-> EXIT_NONZERO_RETURN, exit_code |-> c] :
            c \in ExitCodes \ {0}}
    \cup {[exit_status |-> s, exit_code |-> 0] :
            s \in {EXIT_SIGNAL, EXIT_TIMEOUT, EXIT_TIMEOUT_WALL,
                   EXIT_SANDBOX_ERROR}}

\* collectResult: (box_success, evaluation_success, stats) of a sandbox.
evaluation_step_after_run(t) ==
    IF t.exit_status = EXIT_OK
    THEN [box_success |-> TRUE, evaluation_success |-> Some(TRUE),
          stats |-> Some(t)]
    ELSE IF t.exit_status \in {EXIT_TIMEOUT, EXIT_TIMEOUT_WALL,
                               EXIT_NONZERO_RETURN, EXIT_SIGNAL}
    THEN [box_success |-> TRUE, evaluation_success |-> Some(FALSE),
          stats |-> Some(t)]
    ELSE [box_success |-> FALSE, evaluation_success |-> None, stats |-> None]

\* The text shown for a user process that did not end normally.
human_evaluation_message(stats) ==
    CASE stats.exit_status = EXIT_TIMEOUT ->
            <<EVALUATION_MESSAGES.timeout>>
      [] stats.exit_status = EXIT_TIMEOUT_WALL ->
            <<EVALUATION_MESSAGES.walltimeout>>
      [] stats.exit_status = EXIT_SIGNAL ->
            <<EVALUATION_MESSAGES.signal>>
      [] stats.exit_status = EXIT_NONZERO_RETURN ->
            <<EVALUATION_MESSAGES.returncode>>
      [] OTHER -> <<>>

\* ------------------------------------------------------ Outcome Extractor

\* The feedback directory holds score_multiplier.txt or not: None or
\* Some(content).
Multipliers == {None} \cup {Some(c) : c \in Contents}

\* Mutants of _extract_outcome: the multiplier file is never looked at; the
\* multiplier file is looked at on exit code 43 as well.
_extract_outcome_without_multiplier(stats, multiplier) ==
    IF stats.exit_code \notin {EXIT_ACCEPT, EXIT_REJECT}
    THEN [raised |-> FALSE, outcome |-> None, text |-> None, read |-> FALSE]
    ELSE IF stats.exit_code = EXIT_REJECT
    THEN [raised |-> FALSE, outcome |-> Some(Float(0)),
          text |-> Some(<<EVALUATION_MESSAGES.wrong>>), read |-> FALSE]
    ELSE [raised |-> FALSE, outcome |-> Some(Float(1)),
          text |-> Some(<<EVALUATION_MESSAGES.success>>), read |-> FALSE]

_extract_outcome_multiplier_first(stats, multiplier) ==
    IF stats.exit_code \notin {EXIT_ACCEPT, EXIT_REJECT}
    THEN [raised |-> FALSE, outcome |-> None, text |-> None, read |-> FALSE]
    ELSE IF multiplier # None
    THEN IF ~float_ok(multiplier[1])
         THEN [raised |-> TRUE, outcome |-> None, text |-> None,
               read |-> TRUE]
         ELSE LET outcome == float(multiplier[1]) IN
              [raised |-> FALSE, outcome |-> Some(outcome),
               text |-> Some(<<IF GreaterThanZero(outcome)
                                  /\ LessThanOne(outcome)
                               THEN EVALUATION_MESSAGES.partial
                               ELSE EVALUATION_MESSAGES.success>>),
               read |-> TRUE]
    ELSE IF stats.exit_code = EXIT_REJECT
    THEN [raised |-> FALSE, outcome |-> Some(Float(0)),
          text |-> Some(<<EVALUATION_MESSAGES.wrong>>), read |-> FALSE]
    ELSE [raised |-> FALSE, outcome |-> Some(Float(1)),
          text |-> Some(<<EVALUATION_MESSAGES.success>>), read |-> FALSE]

\* Kattis._extract_outcome(stats, feedbackdir).  raised: float() threw
\* ValueError; read: the multiplier file was opened and read.
_extract_outcome(stats, multiplier) ==
    IF stats.exit_code \notin {EXIT_ACCEPT, EXIT_REJECT}
    THEN [raised |-> FALSE, outcome |-> None, text |-> None, read |-> FALSE]
    ELSE IF stats.exit_code = EXIT_REJECT
    THEN [raised |-> FALSE, outcome |-> Some(Float(0)),
          text |-> Some(<<EVALUATION_MESSAGES.wrong>>), read |-> FALSE]
    ELSE IF multiplier # None
    THEN IF ~float_ok(multiplier[1])
         THEN [raised |-> TRUE, outcome |-> None, text |-> None,
               read |-> TRUE]
         ELSE LET outcome == float(multiplier[1]) IN
              [raised |-> FALSE, outcome |-> Some(outcome),
               text |-> Some(<<IF GreaterThanZero(outcome)
                                  /\ LessThanOne(outcome)
                               THEN EVALUATION_MESSAGES.partial
                               ELSE EVALUATION_MESSAGES.success>>),
               read |-> TRUE]
    ELSE [raised |-> FALSE, outcome |-> Some(Float(1)),
          text |-> Some(<<EVALUATION_MESSAGES.success>>), read |-> FALSE]

\* -------------------------------------------------------- Result Reducer

\* success = box_success_user and box_success_mgr and evaluation_success_mgr,
\* with evaluation_success_mgr forced to True on exit codes 42 and 43.
ManagerEvaluationOk(res_mgr) ==
    IF res_mgr.box_success
       /\ res_mgr.stats[1].exit_code \in {EXIT_ACCEPT, EXIT_REJECT}
    THEN Some(TRUE)
    ELSE res_mgr.evaluation_success

\* Mutant of ReducedSuccess: the manager's evaluation status is not
\* looked at.
ReducedSuccess_without_manager_evaluation(res_user, res_mgr) ==
    /\ res_user.box_success
    /\ res_mgr.box_success

ReducedSuccess(res_user, res_mgr) ==
    /\ res_user.box_success
    /\ res_mgr.box_success
    /\ Truthy(ManagerEvaluationOk(res_mgr))

\* Mutants of _get_results: the manager's verdict is fetched before the user
\* side is looked at; a user fault makes the job fail; only_execution is
\* looked at after the user side.
_get_results_verdict_first(multiplier, t_user, t_mgr, only_execution) ==
    LET res_mgr == evaluation_step_after_run(t_mgr)
        res_user == evaluation_step_after_run(t_user)
        success == ReducedSuccess(res_user, res_mgr)
        ext == _extract_outcome(res_mgr.stats[1], multiplier)
    IN  IF ~success
        THEN [raised |-> FALSE, success |-> FALSE, outcome |-> None,
              text |-> None, plus |-> None,
              extracted |-> FALSE, read |-> FALSE]
        ELSE IF only_execution
        THEN [raised |-> FALSE, success |-> TRUE, outcome |-> Some(Float(0)),
              text |-> Some(<<N_("Execution completed successfully")>>),
              plus |-> res_user.stats,
              extracted |-> FALSE, read |-> FALSE]
        ELSE IF ext.raised \/ Truthy(res_user.evaluation_success)
        THEN [raised |-> ext.raised, success |-> TRUE,
              outcome |-> ext.outcome, text |-> ext.text,
              plus |-> res_user.stats,
              extracted |-> TRUE, read |-> ext.read]
        ELSE [raised |-> FALSE, success |-> TRUE, outcome |-> Some(Float(0)),
              text |-> Some(human_evaluation_message(res_user.stats[1])),
              plus |-> res_user.stats,
              extracted |-> TRUE, read |-> ext.read]

_get_results_user_must_pass(multiplier, t_user, t_mgr, only_execution) ==
    LET res_mgr == evaluation_step_after_run(t_mgr)
        res_user == evaluation_step_after_run(t_user)
        success == ReducedSuccess(res_user, res_mgr)
                   /\ Truthy(res_user.evaluation_success)
        ext == _extract_outcome(res_mgr.stats[1], multiplier)
    IN  IF ~success
        THEN [raised |-> FALSE, success |-> FALSE, outcome |-> None,
              text |-> None, plus |-> None,
              extracted |-> FALSE, read |-> FALSE]
        ELSE IF only_execution
        THEN [raised |-> FALSE, success |-> TRUE, outcome |-> Some(Float(0)),
              text |-> Some(<<N_("Execution completed successfully")>>),
              plus |-> res_user.stats,
              extracted |-> FALSE, read |-> FALSE]
        ELSE [raised |-> ext.raised, success |-> TRUE,
              outcome |-> ext.outcome, text |-> ext.text,
              plus |-> res_user.stats,
              extracted |-> TRUE, read |-> ext.read]

_get_results_execution_last(multiplier, t_user, t_mgr, only_execution) ==
    LET res_mgr == evaluation_step_after_run(t_mgr)
        res_user == evaluation_step_after_run(t_user)
        success == ReducedSuccess(res_user, res_mgr)
        ext == _extract_outcome(res_mgr.stats[1], multiplier)
    IN  IF ~success
        THEN [raised |-> FALSE, success |-> FALSE, outcome |-> None,
              text |-> None, plus |-> None,
              extracted |-> FALSE, read |-> FALSE]
        ELSE IF ~Truthy(res_user.evaluation_success)
        THEN [raised |-> FALSE, success |-> TRUE, outcome |-> Some(Float(0)),
              text |-> Some(human_evaluation_message(res_user.stats[1])),
              plus |-> res_user.stats,
              extracted |-> FALSE, read |-> FALSE]
        ELSE IF only_execution
        THEN [raised |-> FALSE, success |-> TRUE, outcome |-> Some(Float(0)),
              text |-> Some(<<N_("Execution completed successfully")>>),
              plus |-> res_user.stats,
              extracted |-> FALSE, read |-> FALSE]
        ELSE [raised |-> ext.raised, success |-> TRUE,
              outcome |-> ext.outcome, text |-> ext.text,
              plus |-> res_user.stats,
              extracted |-> TRUE, read |-> ext.read]

\* Kattis._get_results: the values it computes from the two sandboxes, the
\* feedback directory and the job.  extracted: _extract_outcome was called.
_get_results(multiplier, t_user, t_mgr, only_execution) ==
    LET res_mgr == evaluation_step_after_run(t_mgr)
        res_user == evaluation_step_after_run(t_user)
        success == ReducedSuccess(res_user, res_mgr)
        ext == _extract_outcome(res_mgr.stats[1], multiplier)
    IN  IF ~success
        THEN [raised |-> FALSE, success |-> FALSE, outcome |-> None,
              text |-> None, plus |-> None,
              extracted |-> FALSE, read |-> FALSE]
        ELSE IF only_execution
        THEN [raised |-> FALSE, success |-> TRUE, outcome |-> Some(Float(0)),
              text |-> Some(<<N_("Execution completed successfully")>>),
              plus |-> res_user.stats,
              extracted |-> FALSE, read |-> FALSE]
        ELSE IF ~Truthy(res_user.evaluation_success)
        THEN [raised |-> FALSE, success |-> TRUE, outcome |-> Some(Float(0)),
              text |-> Some(human_evaluation_message(res_user.stats[1])),
              plus |-> res_user.stats,
              extracted |-> FALSE, read |-> FALSE]
        ELSE [raised |-> ext.raised, success |-> TRUE,
              outcome |-> ext.outcome, text |-> ext.text,
              plus |-> res_user.stats,
              extracted |-> TRUE, read |-> ext.read]

\* job.outcome = "%s" % outcome if outcome is not None else None
OutcomeString(outcome) ==
    IF outcome = None THEN None ELSE Some(FormatFloat(outcome[1]))

\* --------------------------------------------------------------- state

VARIABLES
    pc,                 \* where evaluate() is
    interactive,        \* self.interactive
    n_commands,         \* len(language.get_evaluation_commands(...))
    job,                \* the job: inputs and result fields
    config_keep_sandbox,\* config.keep_sandbox
    config_trusted,     \* config.trusted_sandbox_max_*
    loader,             \* the task loader: its test-data tree and results
    dirs,               \* the scratch directories under config.temp_dir
    sandboxes,          \* the manager's and the user's sandbox
    procs,              \* the manager's and the user's process
    multiplier,         \* score_multiplier.txt in the feedback directory
    probe,              \* what _get_results did: extractor called, file
                        \* read, job fields written
    chan,               \* the two named pipes
    prog                \* where the two programs of the echo scenario are

vars == <<pc, interactive, n_commands, job, config_keep_sandbox,
          config_trusted, loader, dirs, sandboxes, procs, multiplier, probe,
          chan, prog>>

DirNames == {"fifo_dir", "feedback_dir", "output_dir"}
Sides == {"manager", "user"}

\* A process handle: not started, running, or ended with its telemetry;
\* starts counts its evaluation_step_before_run calls and waits the wait
\* calls that covered it; time_limit, memory_limit, dirs_map and the two
\* redirections are what evaluation_step_before_run was given.
NoProcess ==
    [state |-> "unstarted", telemetry |-> None, starts |-> 0, waits |-> 0,
     time_limit |-> None, memory_limit |-> None, dirs_map |-> {},
     stdin_redirect |-> None, stdout_redirect |-> None]

\* No task is being loaded.
NoLoader == [tree |-> None]

\* A pipe end is closed, being opened (the open call blocks), or open.
NoPipe == [rd |-> "closed", wr |-> "closed", buf |-> 0, made |-> FALSE]
NoChannels == [u_to_m |-> NoPipe, m_to_u |-> NoPipe]
NoPrograms == [manager |-> [at |-> "idle", first |-> "stdin", sent |-> 0],
               user |-> [at |-> "idle", first |-> "stdin", held |-> 0]]

\* The task's limits: seconds and bytes, whole numbers here.
MaxTimeLimit == 2
TimeLimits == 1..MaxTimeLimit
MemoryLimits == {1024, 2048}
TrustedLimits ==
    [trusted_sandbox_max_time_s : {1, 3},
     trusted_sandbox_max_memory_kib : {1}]

\* A job as evaluate() receives it: the result fields are still None.
JobsWith(time_limits, memory_limits) ==
    [n_executables : {0, 1}, has_manager : BOOLEAN,
     only_execution : BOOLEAN, keep_sandbox : BOOLEAN,
     time_limit : time_limits, memory_limit : memory_limits,
     success : {None}, outcome : {None}, text : {None}, plus : {None}]

Jobs == JobsWith({1}, {1024})

InitCommon ==
    /\ pc = "evaluate"
    /\ config_keep_sandbox \in BOOLEAN
    /\ dirs = [d \in DirNames |-> "absent"]
    /\ sandboxes = [s \in Sides |-> "none"]
    /\ procs = [s \in Sides |-> NoProcess]
    /\ multiplier = None
    /\ probe = [extracted |-> 0, read |-> 0, writes |-> 0]
    /\ chan = NoChannels
    /\ prog = NoPrograms
    /\ loader = NoLoader

Init ==
    /\ InitCommon
    /\ interactive \in BOOLEAN
    /\ n_commands \in {1, 2}
    /\ job \in Jobs
    /\ config_trusted = [trusted_sandbox_max_time_s |-> 2,
                         trusted_sandbox_max_memory_kib |-> 1]

\* ------------------------------------------------------------ operations

\* Kattis.evaluate with the two checks that open both orchestrators:
\* check_executables_number(job, 1) and check_manager_present(job, ...),
\* each of which marks the job failed and makes evaluate return.
evaluate ==
    /\ pc = "evaluate"
    /\ IF job.n_executables # 1 \/ ~job.has_manager
       THEN /\ job' = [job EXCEPT !.success = Some(FALSE)]
            /\ pc' = "returned"
       ELSE /\ job' = job
            /\ pc' = IF interactive THEN "I_channels" ELSE "N_output_dir"
    /\ UNCHANGED <<interactive, n_commands, config_keep_sandbox,
                   config_trusted, loader, dirs, sandboxes, procs, multiplier,
                   probe, chan, prog>>

\* _evaluate_interactive: mkdtemp of the fifo directory, mkfifo of u_to_m,
\* mkfifo of m_to_u, and the feedback mkdtemp, in that order. Each of the
\* four can fail with OSError, which nothing catches: evaluate is left with
\* what was created before still on disk.
I_CreateChannels ==
    /\ pc = "I_channels"
    /\ \E created \in 0..4 :
          /\ dirs' = [dirs EXCEPT
                        !.fifo_dir = IF created >= 1 THEN "present" ELSE @,
                        !.feedback_dir = IF created >= 4 THEN "present" ELSE @]
          /\ chan' = [u_to_m |-> [NoPipe EXCEPT !.made = (created >= 2)],
                      m_to_u |-> [NoPipe EXCEPT !.made = (created >= 3)]]
          /\ pc' = IF created = 4 THEN "I_sandboxes" ELSE "oserror"
    /\ UNCHANGED <<interactive, n_commands, job, config_keep_sandbox,
                   config_trusted, loader, sandboxes, procs, multiplier,
                   probe, prog>>

\* _evaluate_interactive: create_sandbox for the manager, then for the user.
I_CreateSandboxes ==
    /\ pc = "I_sandboxes"
    /\ sandboxes' = [s \in Sides |-> "created"]
    /\ pc' = "I_start_manager"
    /\ UNCHANGED <<interactive, n_commands, job, config_keep_sandbox,
                   config_trusted, loader, dirs, procs, multiplier, probe,
                   chan, prog>>

\* evaluation_step_before_run(sandbox, command, time_limit, memory_limit,
\* dirs_map, ...): the process is started, not waited for.
Started(side, time_limit, memory_limit, dirs_map, stdin, stdout) ==
    [procs EXCEPT ![side].state = "running",
                  ![side].starts = @ + 1,
                  ![side].time_limit = Some(time_limit),
                  ![side].memory_limit = Some(memory_limit),
                  ![side].dirs_map = dirs_map,
                  ![side].stdin_redirect = stdin,
                  ![side].stdout_redirect = stdout]

Max(a, b) == IF a >= b THEN a ELSE b

\* Mutant of manager_time_limit: the trusted maximum is not looked at.
manager_time_limit_without_max(time_limit, trusted_max_time) ==
    time_limit + 1

\* manager_time_limit = max(job.time_limit + 1.0,
\*                          config.trusted_sandbox_max_time_s)
manager_time_limit(time_limit, trusted_max_time) ==
    Max(time_limit + 1, trusted_max_time)

\* What both orchestrators give the manager: the time limit above and
\* config.trusted_sandbox_max_memory_kib * 1024.
StartedManager(dirs_map, stdin_redirect, stdout_redirect) ==
    Started("manager",
            manager_time_limit(job.time_limit,
                               config_trusted.trusted_sandbox_max_time_s),
            config_trusted.trusted_sandbox_max_memory_kib * 1024,
            dirs_map, stdin_redirect, stdout_redirect)

\* What both orchestrators give the user process: job.time_limit and
\* job.memory_limit.
StartedUser(dirs_map, stdin_redirect, stdout_redirect) ==
    Started("user", job.time_limit, job.memory_limit, dirs_map,
            stdin_redirect, stdout_redirect)

\* Mutant of StdinPipe: both processes are given u_to_m as their input.
StdinPipe_same_for_both(side) == "u_to_m"

\* stdin_redirect and stdout_redirect of the two evaluation_step_before_run
\* calls of _evaluate_interactive: which pipe each side reads and which it
\* writes.
StdinPipe(side) == IF side = "manager" THEN "u_to_m" ELSE "m_to_u"
StdoutPipe(side) == IF side = "manager" THEN "m_to_u" ELSE "u_to_m"

I_StartManager ==
    /\ pc = "I_start_manager"
    /\ procs' = StartedManager({"fifo_dir", "feedback_dir"},
                                Some(StdinPipe("manager")),
                                Some(StdoutPipe("manager")))
    /\ prog' = [prog EXCEPT !.manager.at = "start"]
    /\ pc' = "I_start_user"
    /\ UNCHANGED <<interactive, n_commands, job, config_keep_sandbox,
                   config_trusted, loader, dirs, sandboxes, multiplier, probe,
                   chan>>

\* With more than one evaluation command, trusted_step(sandbox_user[i], ...)
\* names an undefined i: NameError, and evaluate is left by the exception.
I_StartUser ==
    /\ pc = "I_start_user"
    /\ IF n_commands > 1
       THEN /\ pc' = "raised"
            /\ UNCHANGED <<procs, prog>>
       ELSE /\ procs' = StartedUser({"fifo_dir"}, Some(StdinPipe("user")),
                                     Some(StdoutPipe("user")))
            /\ prog' = [prog EXCEPT !.user.at = "start"]
            /\ pc' = "I_wait"
    /\ UNCHANGED <<interactive, n_commands, job, config_keep_sandbox,
                   config_trusted, loader, dirs, sandboxes, multiplier, probe,
                   chan>>

\* wait_without_std(handles): returns once every handle has ended.
Waited(handles) ==
    [s \in Sides |-> IF s \in handles
                     THEN [procs[s] EXCEPT !.waits = @ + 1]
                     ELSE procs[s]]

\* Mutant of I_Wait: the wait covers the user process alone.
I_Wait_user_only ==
    /\ pc = "I_wait"
    /\ \A s \in Sides : procs[s].state = "ended"
    /\ procs' = Waited({"user"})
    /\ pc' = "results"
    /\ UNCHANGED <<interactive, n_commands, job, config_keep_sandbox,
                   config_trusted, loader, dirs, sandboxes, multiplier, probe,
                   chan, prog>>

I_Wait ==
    /\ pc = "I_wait"
    /\ \A s \in Sides : procs[s].state = "ended"
    /\ procs' = Waited(Sides)
    /\ pc' = "results"
    /\ UNCHANGED <<interactive, n_commands, job, config_keep_sandbox,
                   config_trusted, loader, dirs, sandboxes, multiplier, probe,
                   chan, prog>>

\* _evaluate_noninteractive: mkdtemp of the output directory, which can
\* fail with OSError.
N_CreateOutputDir ==
    /\ pc = "N_output_dir"
    /\ \E created \in BOOLEAN :
          /\ dirs' = [dirs EXCEPT
                        !.output_dir = IF created THEN "present" ELSE @]
          /\ pc' = IF created THEN "N_user_sandbox" ELSE "oserror"
    /\ UNCHANGED <<interactive, n_commands, job, config_keep_sandbox,
                   config_trusted, loader, sandboxes, procs, multiplier,
                   probe, chan, prog>>

N_CreateUserSandbox ==
    /\ pc = "N_user_sandbox"
    /\ sandboxes' = [sandboxes EXCEPT !.user = "created"]
    /\ pc' = "N_start_user"
    /\ UNCHANGED <<interactive, n_commands, job, config_keep_sandbox,
                   config_trusted, loader, dirs, procs, multiplier, probe,
                   chan, prog>>

\* Mutant of N_StartUser: the wait on the user process is skipped.
N_StartUser_without_wait ==
    /\ pc = "N_start_user"
    /\ IF n_commands > 1
       THEN /\ pc' = "raised"
            /\ UNCHANGED procs
       ELSE /\ procs' = StartedUser({"output_dir"}, Some("input.txt"),
                                     Some("/output/output.txt"))
            /\ pc' = "N_feedback_dir"
    /\ UNCHANGED <<interactive, n_commands, job, config_keep_sandbox,
                   config_trusted, loader, dirs, sandboxes, multiplier, probe,
                   chan, prog>>

N_StartUser ==
    /\ pc = "N_start_user"
    /\ IF n_commands > 1
       THEN /\ pc' = "raised"
            /\ UNCHANGED procs
       ELSE /\ procs' = StartedUser({"output_dir"}, Some("input.txt"),
                                     Some("/output/output.txt"))
            /\ pc' = "N_wait_user"
    /\ UNCHANGED <<interactive, n_commands, job, config_keep_sandbox,
                   config_trusted, loader, dirs, sandboxes, multiplier, probe,
                   chan, prog>>

\* Mutant of N_WaitUser: the manager is started without the feedback
\* directory having been created.
N_WaitUser_without_feedback_dir ==
    /\ pc = "N_wait_user"
    /\ procs.user.state = "ended"
    /\ procs' = Waited({"user"})
    /\ pc' = "N_start_manager"
    /\ UNCHANGED <<interactive, n_commands, job, config_keep_sandbox,
                   config_trusted, loader, dirs, sandboxes, multiplier, probe,
                   chan, prog>>

N_WaitUser ==
    /\ pc = "N_wait_user"
    /\ procs.user.state = "ended"
    /\ procs' = Waited({"user"})
    /\ pc' = "N_feedback_dir"
    /\ UNCHANGED <<interactive, n_commands, job, config_keep_sandbox,
                   config_trusted, loader, dirs, sandboxes, multiplier, probe,
                   chan, prog>>

\* _evaluate_noninteractive: the feedback mkdtemp, which can fail with
\* OSError, and the manager's sandbox.
N_CreateFeedbackDir ==
    /\ pc = "N_feedback_dir"
    /\ \E created \in BOOLEAN :
          IF created
          THEN /\ dirs' = [dirs EXCEPT !.feedback_dir = "present"]
               /\ sandboxes' = [sandboxes EXCEPT !.manager = "created"]
               /\ pc' = "N_start_manager"
          ELSE /\ pc' = "oserror"
               /\ UNCHANGED <<dirs, sandboxes>>
    /\ UNCHANGED <<interactive, n_commands, job, config_keep_sandbox,
                   config_trusted, loader, procs, multiplier, probe, chan,
                   prog>>

N_StartManager ==
    /\ pc = "N_start_manager"
    /\ procs' = StartedManager({"output_dir", "feedback_dir"},
                                Some("/output/output.txt"), None)
    /\ pc' = "N_wait_manager"
    /\ UNCHANGED <<interactive, n_commands, job, config_keep_sandbox,
                   config_trusted, loader, dirs, sandboxes, multiplier, probe,
                   chan, prog>>

N_WaitManager ==
    /\ pc = "N_wait_manager"
    /\ procs.manager.state = "ended"
    /\ procs' = Waited({"manager"})
    /\ pc' = "results"
    /\ UNCHANGED <<interactive, n_commands, job, config_keep_sandbox,
                   config_trusted, loader, dirs, sandboxes, multiplier, probe,
                   chan, prog>>

\* self._get_results(feedback_dir, sandbox_user, sandbox_mgr, job): the job's
\* result fields are filled in unless float() raised on the way.
GetResults ==
    /\ pc = "results"
    /\ LET r == _get_results(multiplier, procs.user.telemetry[1],
                             procs.manager.telemetry[1], job.only_execution)
       IN  /\ probe' = [extracted |-> probe.extracted
                                        + (IF r.extracted THEN 1 ELSE 0),
                        read |-> probe.read + (IF r.read THEN 1 ELSE 0),
                        writes |-> probe.writes
                                     + (IF r.raised THEN 0 ELSE 1)]
           /\ IF r.raised
              THEN /\ job' = job
                   /\ pc' = "raised"
              ELSE /\ job' = [job EXCEPT !.success = Some(r.success),
                                         !.outcome = OutcomeString(r.outcome),
                                         !.text = r.text,
                                         !.plus = r.plus]
                   /\ pc' = "cleanup"
    /\ UNCHANGED <<interactive, n_commands, config_keep_sandbox,
                   config_trusted, loader, dirs, sandboxes, procs, multiplier,
                   chan, prog>>

\* delete_sandbox(sandbox, success, keep_sandbox): the sandbox is deleted
\* when the job succeeded and nobody asked to keep it.
delete_sandbox(success, keep_sandbox) ==
    IF Truthy(success) /\ ~config_keep_sandbox /\ ~keep_sandbox
    THEN "deleted" ELSE "kept"

\* Mutant of RemovesScratch: config.keep_sandbox is not looked at.
RemovesScratch_without_config(success, config_keep, job_keep) ==
    Truthy(success) /\ ~job_keep

\* if job.success and not config.keep_sandbox and not job.keep_sandbox
RemovesScratch(success, config_keep, job_keep) ==
    Truthy(success) /\ ~config_keep /\ ~job_keep

\* The scratch directories each orchestrator removes: rmtree(fifo_dir) and
\* rmtree(feedback_dir) in the interactive one, rmtree(feedback_dir) alone
\* in the non-interactive one.
Removed(is_interactive) ==
    IF is_interactive THEN {"fifo_dir", "feedback_dir"} ELSE {"feedback_dir"}

Cleanup ==
    /\ pc = "cleanup"
    /\ sandboxes' = [s \in Sides |->
                        delete_sandbox(job.success, job.keep_sandbox)]
    /\ dirs' = IF RemovesScratch(job.success, config_keep_sandbox,
                                 job.keep_sandbox)
               THEN [d \in DirNames |-> IF d \in Removed(interactive)
                                        THEN "removed" ELSE dirs[d]]
               ELSE dirs
    /\ pc' = "done"
    /\ UNCHANGED <<interactive, n_commands, job, config_keep_sandbox,
                   config_trusted, loader, procs, multiplier, probe, chan,
                   prog>>

\* ----------------------------------------------------------- processes

\* A running manager ends in any way a sandboxed process can end, leaving
\* score_multiplier.txt in the feedback directory or not.
ManagerExit ==
    /\ procs.manager.state = "running"
    /\ \E t \in Telemetry, m \in Multipliers :
          /\ procs' = [procs EXCEPT !.manager.state = "ended",
                                    !.manager.telemetry = Some(t)]
          /\ multiplier' = m
    /\ UNCHANGED <<pc, interactive, n_commands, job, config_keep_sandbox,
                   config_trusted, loader, dirs, sandboxes, probe, chan,
                   prog>>

\* A running user process ends in any way a sandboxed process can end.
UserExit ==
    /\ procs.user.state = "running"
    /\ \E t \in Telemetry :
          procs' = [procs EXCEPT !.user.state = "ended",
                                 !.user.telemetry = Some(t)]
    /\ UNCHANGED <<pc, interactive, n_commands, job, config_keep_sandbox,
                   config_trusted, loader, dirs, sandboxes, multiplier, probe,
                   chan, prog>>

Next ==
    \/ evaluate
    \/ I_CreateChannels
    \/ I_CreateSandboxes
    \/ I_StartManager
    \/ I_StartUser
    \/ I_Wait
    \/ N_CreateOutputDir
    \/ N_CreateUserSandbox
    \/ N_StartUser
    \/ N_WaitUser
    \/ N_CreateFeedbackDir
    \/ N_StartManager
    \/ N_WaitManager
    \/ GetResults
    \/ Cleanup
    \/ ManagerExit
    \/ UserExit

Spec == Init /\ [][Next]_vars

\* ------------------------------------------- the echo scenario's processes

\* The manager writes more than one pipe buffer to its output and exits with
\* 42 without reading; the user program echoes what it reads and exits 0.
DataLen == PipeCapacity + 1

Peer(side) == IF side = "manager" THEN "user" ELSE "manager"

\* The pipe a started process has as its stdin or stdout: the sandbox
\* opens what evaluation_step_before_run was given.
PipeOf(side, stream) ==
    IF stream = "stdin" THEN procs[side].stdin_redirect[1]
    ELSE procs[side].stdout_redirect[1]
EndOf(stream) == IF stream = "stdin" THEN "rd" ELSE "wr"
OtherEnd(end) == IF end = "rd" THEN "wr" ELSE "rd"
OtherStream(stream) == IF stream = "stdin" THEN "stdout" ELSE "stdin"

\* The stream a side's sandbox is opening: a blocking open of a FIFO returns
\* once the other end is open, is being opened, or was open while this open
\* was waiting.
Opening(side) ==
    IF prog[side].at = "open1" THEN prog[side].first
    ELSE OtherStream(prog[side].first)
CanOpen(side) ==
    chan[PipeOf(side, Opening(side))][OtherEnd(EndOf(Opening(side)))]
        \in {"opening", "open", "shut"}

\* The sandbox of a started process opens its two redirections, in one order
\* or the other, before the program runs.
Sandbox_BeginOpen(side) ==
    /\ procs[side].state = "running"
    /\ prog[side].at = "start"
    /\ \E first \in {"stdin", "stdout"} :
          /\ prog' = [prog EXCEPT ![side].first = first,
                                  ![side].at = "open1"]
          /\ chan' = [chan EXCEPT
                        ![PipeOf(side, first)][EndOf(first)] = "opening"]
    /\ UNCHANGED <<pc, interactive, n_commands, job, config_keep_sandbox,
                   config_trusted, loader, dirs, sandboxes, procs, multiplier,
                   probe>>

Sandbox_Opened(side) ==
    /\ procs[side].state = "running"
    /\ prog[side].at \in {"open1", "open2"}
    /\ CanOpen(side)
    /\ LET this == Opening(side)
           next == OtherStream(this)
           opened == [chan EXCEPT ![PipeOf(side, this)][EndOf(this)] = "open"]
       IN  IF prog[side].at = "open1"
           THEN /\ chan' = [opened EXCEPT
                              ![PipeOf(side, next)][EndOf(next)] = "opening"]
                /\ prog' = [prog EXCEPT ![side].at = "open2"]
           ELSE /\ chan' = opened
                /\ prog' = [prog EXCEPT ![side].at = "run"]
    /\ UNCHANGED <<pc, interactive, n_commands, job, config_keep_sandbox,
                   config_trusted, loader, dirs, sandboxes, procs, multiplier,
                   probe>>

\* A process ends: its open pipe ends are closed, its sandbox holds t.
ClosedBy(side) ==
    LET shut(v) == IF v = "open" THEN "shut"
                   ELSE IF v = "opening" THEN "closed" ELSE v
    IN  [chan EXCEPT
            ![PipeOf(side, "stdin")].rd = shut(@),
            ![PipeOf(side, "stdout")].wr = shut(@)]

Ends(side, t) ==
    /\ procs' = [procs EXCEPT ![side].state = "ended",
                              ![side].telemetry = Some(t)]
    /\ chan' = ClosedBy(side)
    /\ prog' = [prog EXCEPT ![side].at = "ended"]

\* The manager writes one more block: the write blocks while the pipe is
\* full, and kills the manager (SIGPIPE) when the reader is gone.
Manager_Write ==
    /\ procs.manager.state = "running"
    /\ prog.manager.at = "run"
    /\ prog.manager.sent < DataLen
    /\ IF chan.m_to_u.rd = "shut"
       THEN Ends("manager", [exit_status |-> EXIT_SIGNAL, exit_code |-> 0])
       ELSE /\ chan.m_to_u.buf < PipeCapacity
            /\ chan' = [chan EXCEPT !.m_to_u.buf = @ + 1]
            /\ prog' = [prog EXCEPT !.manager.sent = @ + 1]
            /\ UNCHANGED procs
    /\ UNCHANGED <<pc, interactive, n_commands, job, config_keep_sandbox,
                   config_trusted, loader, dirs, sandboxes, multiplier,
                   probe>>

\* Everything written, the manager exits with 42 (and no multiplier file).
Manager_Accept ==
    /\ procs.manager.state = "running"
    /\ prog.manager.at = "run"
    /\ prog.manager.sent = DataLen
    /\ Ends("manager", [exit_status |-> EXIT_NONZERO_RETURN,
                        exit_code |-> EXIT_ACCEPT])
    /\ UNCHANGED <<pc, interactive, n_commands, job, config_keep_sandbox,
                   config_trusted, loader, dirs, sandboxes, multiplier,
                   probe>>

\* The user program reads a block; the read blocks while the pipe is empty
\* and its writer is there.
User_Read ==
    /\ procs.user.state = "running"
    /\ prog.user.at = "run"
    /\ prog.user.held = 0
    /\ chan.m_to_u.buf > 0
    /\ chan' = [chan EXCEPT !.m_to_u.buf = @ - 1]
    /\ prog' = [prog EXCEPT !.user.held = 1]
    /\ UNCHANGED <<pc, interactive, n_commands, job, config_keep_sandbox,
                   config_trusted, loader, dirs, sandboxes, procs, multiplier,
                   probe>>

\* The user program writes the block back; the write blocks while the pipe
\* is full, and fails when the reader is gone, which this program ignores.
User_Echo ==
    /\ procs.user.state = "running"
    /\ prog.user.at = "run"
    /\ prog.user.held = 1
    /\ IF chan.u_to_m.rd = "shut"
       THEN chan' = chan
       ELSE /\ chan.u_to_m.buf < PipeCapacity
            /\ chan' = [chan EXCEPT !.u_to_m.buf = @ + 1]
    /\ prog' = [prog EXCEPT !.user.held = 0]
    /\ UNCHANGED <<pc, interactive, n_commands, job, config_keep_sandbox,
                   config_trusted, loader, dirs, sandboxes, procs, multiplier,
                   probe>>

\* End of input: the user program exits 0.
User_Finish ==
    /\ procs.user.state = "running"
    /\ prog.user.at = "run"
    /\ prog.user.held = 0
    /\ chan.m_to_u.buf = 0
    /\ chan.m_to_u.wr = "shut"
    /\ Ends("user", [exit_status |-> EXIT_OK, exit_code |-> 0])
    /\ UNCHANGED <<pc, interactive, n_commands, job, config_keep_sandbox,
                   config_trusted, loader, dirs, sandboxes, multiplier,
                   probe>>

\* A process is blocked in a system call that the other side must complete.
Blocked(side) ==
    /\ procs[side].state = "running"
    /\ \/ prog[side].at \in {"open1", "open2"} /\ ~CanOpen(side)
       \/ /\ side = "manager"
          /\ prog.manager.at = "run"
          /\ prog.manager.sent < DataLen
          /\ chan.m_to_u.rd # "shut"
          /\ chan.m_to_u.buf = PipeCapacity
       \/ /\ side = "user"
          /\ prog.user.at = "run"
          /\ \/ /\ prog.user.held = 0
                /\ chan.m_to_u.buf = 0
                /\ chan.m_to_u.wr # "shut"
             \/ /\ prog.user.held = 1
                /\ chan.u_to_m.rd # "shut"
                /\ chan.u_to_m.buf = PipeCapacity

\* Blocked for good: the other side has ended or is blocked as well.
Stuck(side) ==
    /\ Blocked(side)
    /\ procs[Peer(side)].state = "ended" \/ Blocked(Peer(side))

\* The isolation layer kills a process that is still there when its
\* wall-clock limit expires; a process that is stuck gets there.
Isolate_Kill(side) ==
    /\ Stuck(side)
    /\ Ends(side, [exit_status |-> EXIT_TIMEOUT_WALL, exit_code |-> 0])
    /\ UNCHANGED <<pc, interactive, n_commands, job, config_keep_sandbox,
                   config_trusted, loader, dirs, sandboxes, multiplier,
                   probe>>

InitEcho ==
    /\ InitCommon
    /\ interactive = TRUE
    /\ n_commands = 1
    /\ job \in {j \in Jobs : /\ j.n_executables = 1
                             /\ j.has_manager
                             /\ ~j.only_execution}
    /\ config_trusted = [trusted_sandbox_max_time_s |-> 2,
                         trusted_sandbox_max_memory_kib |-> 1]

NextEcho ==
    \/ evaluate
    \/ I_CreateChannels
    \/ I_CreateSandboxes
    \/ I_StartManager
    \/ I_StartUser
    \/ I_Wait
    \/ GetResults
    \/ Cleanup
    \/ \E side \in Sides : Sandbox_BeginOpen(side)
    \/ \E side \in Sides : Sandbox_Opened(side)
    \/ Manager_Write
    \/ Manager_Accept
    \/ User_Read
    \/ User_Echo
    \/ User_Finish
    \/ \E side \in Sides : Isolate_Kill(side)

\* Evaluations of a job that passes the checks, for every task time limit,
\* memory limit and trusted maximum.
InitLimits ==
    /\ InitCommon
    /\ ~config_keep_sandbox
    /\ interactive \in BOOLEAN
    /\ n_commands = 1
    /\ job \in {j \in JobsWith(TimeLimits, MemoryLimits) :
                    /\ j.n_executables = 1
                    /\ j.has_manager
                    /\ ~j.only_execution
                    /\ ~j.keep_sandbox}
    /\ config_trusted \in TrustedLimits

SpecLimits == InitLimits /\ [][Next]_vars

SpecEcho == InitEcho /\ [][NextEcho]_vars

\* ------------------------------------------------------------- properties

\* ------------------------------------------------------------ compilation

\* File names are sequences of characters; CodePoints lists the characters
\* that occur in them in the order Python compares them.
CodePoints == <<"%", ".", "_", "a", "b", "l">>
CodePoint(c) == CHOOSE i \in 1..Len(CodePoints) : CodePoints[i] = c

\* s < t for two str: the first differing character decides, a proper
\* prefix comes first.
RECURSIVE StrLess(_, _)
StrLess(s, t) ==
    IF t = <<>> THEN FALSE
    ELSE IF s = <<>> THEN TRUE
    ELSE IF Head(s) # Head(t) THEN CodePoint(Head(s)) < CodePoint(Head(t))
    ELSE StrLess(Tail(s), Tail(t))

\* codename.replace(".%l", new): every occurrence found in one pass from
\* the left is replaced.
RECURSIVE replace_l(_, _)
replace_l(codename, new) ==
    IF codename = <<>> THEN <<>>
    ELSE IF Len(codename) >= 3 /\ SubSeq(codename, 1, 3) = <<".", "%", "l">>
    THEN new \o replace_l(SubSeq(codename, 4, Len(codename)), new)
    ELSE <<Head(codename)>> \o replace_l(Tail(codename), new)

\* sorted(names): insertion into the sorted rest, equal names kept.
RECURSIVE Insert(_, _)
Insert(name, names) ==
    IF names = <<>> THEN <<name>>
    ELSE IF StrLess(Head(names), name)
    THEN <<Head(names)>> \o Insert(name, Tail(names))
    ELSE <<name>> \o names

RECURSIVE sorted(_)
sorted(names) ==
    IF names = <<>> THEN <<>> ELSE Insert(Head(names), sorted(Tail(names)))

\* "_".join(names)
RECURSIVE join(_)
join(names) ==
    IF names = <<>> THEN <<>>
    ELSE IF Len(names) = 1 THEN names[1]
    ELSE names[1] \o <<"_">> \o join(Tail(names))

\* Mutant of _executable_filename: the names are joined as they come.
_executable_filename_unsorted(codenames, executable_extension) ==
    join([i \in 1..Len(codenames) |-> replace_l(codenames[i], <<>>)])
        \o executable_extension

\* Kattis._executable_filename(codenames, language)
_executable_filename(codenames, executable_extension) ==
    join(sorted([i \in 1..Len(codenames) |-> replace_l(codenames[i], <<>>)]))
        \o executable_extension

\* Kattis.get_compilation_commands for one language: the sources handed to
\* the compiler (no stub: _uses_stub() is False) and the executable's name.
get_compilation_commands(submission_format, source_ext, executable_ext) ==
    [sources |-> [i \in 1..Len(submission_format) |->
                     replace_l(submission_format[i], source_ext)],
     executable_filename |->
        _executable_filename(submission_format, executable_ext)]

\* The codenames a submission format is made of, and the languages'
\* source and executable extensions.
MaxFiles == 2
Codenames ==
    {<<"a", ".", "%", "l">>, <<"b", ".", "%", "l">>, <<"a", "b">>, <<"a">>,
     <<"b", "_", "a", ".", "%", "l">>, <<".", ".", "%", "l", "%", "l">>}
Languages ==
    {[source_extension |-> <<".", "c">>, executable_extension |-> <<>>],
     [source_extension |-> <<".", "j", "a", "v", "a">>,
      executable_extension |-> <<".", "j", "a", "r">>]}

\* The codenames of a job's files in the order the dict gives them.
FileLists ==
    {f \in UNION {[1..n -> Codenames] : n \in 0..MaxFiles} :
        \A i, j \in 1..Len(f) : f[i] = f[j] => i = j}

\* The same codenames in every order.
Orderings(codenames) ==
    LET n == Len(codenames)
        perms == {q \in [1..n -> 1..n] : \A i, j \in 1..n : q[i] = q[j] => i = j}
    IN  {[i \in 1..n |-> codenames[q[i]]] : q \in perms}

\* A job as compile() receives it.
CompilationJobs ==
    [files : FileLists, language : Languages, success : {None},
     compilation_success : {None}, executables : {{}}]

\* What compilation_step returns: the sandbox failed, or it ran and the
\* compiler accepted or rejected the sources.
CompilationSteps ==
    {[box_success |-> TRUE, compilation_success |-> Some(TRUE)],
     [box_success |-> TRUE, compilation_success |-> Some(FALSE)],
     [box_success |-> FALSE, compilation_success |-> None]}

\* Kattis.compile: check_files_number(job, 1, or_more=True) turns a job
\* without files away; otherwise the executable is stored under
\* executable_filename when the sandbox and the compilation succeeded.
compile ==
    /\ pc = "compile"
    /\ IF Len(job.files) < 1
       THEN /\ job' = [job EXCEPT !.success = Some(FALSE)]
            /\ pc' = "returned"
       ELSE \E step \in CompilationSteps :
               LET executable_filename ==
                       _executable_filename(job.files,
                                            job.language.executable_extension)
               IN  /\ job' = [job EXCEPT
                                !.success = Some(step.box_success),
                                !.compilation_success =
                                    step.compilation_success,
                                !.executables =
                                    IF step.box_success
                                       /\ Truthy(step.compilation_success)
                                    THEN @ \cup {executable_filename}
                                    ELSE @]
                   /\ pc' = "compiled"
    /\ UNCHANGED <<interactive, n_commands, config_keep_sandbox,
                   config_trusted, loader, dirs, sandboxes, procs, multiplier,
                   probe, chan, prog>>

\* Compilation jobs: the evaluation's variables stay as they start.
InitCompile ==
    /\ pc = "compile"
    /\ job \in CompilationJobs
    /\ interactive = FALSE
    /\ n_commands = 1
    /\ config_keep_sandbox = FALSE
    /\ config_trusted = [trusted_sandbox_max_time_s |-> 2,
                         trusted_sandbox_max_memory_kib |-> 1]
    /\ dirs = [d \in DirNames |-> "absent"]
    /\ sandboxes = [s \in Sides |-> "none"]
    /\ procs = [s \in Sides |-> NoProcess]
    /\ multiplier = None
    /\ probe = [extracted |-> 0, read |-> 0, writes |-> 0]
    /\ chan = NoChannels
    /\ prog = NoPrograms
    /\ loader = NoLoader

NextCompile == compile

SpecCompile == InitCompile /\ [][NextCompile]_vars

\* ------------------------------------------------------- the task loader

\* A directory of test data: its name, the grading score and aggregation
\* its testdata.yaml gives (None where it gives none), the number of its
\* testcases, and its subdirectories in the order sorted(path.iterdir())
\* gives them.
Dir(name, score, aggregation, cases, subdirs) ==
    [name |-> name, score |-> score, aggregation |-> aggregation,
     cases |-> cases, subdirs |-> subdirs]

\* SubtaskNode.__init__: the defaults that the directory's name decides,
\* the testcases, and a SubtaskNode for every subdirectory.  A testcase is
\* known by the path of its directory and its place in it.
RECURSIVE SubtaskNode(_, _)
SubtaskNode(dir, parent) ==
    LET path == parent \o <<dir.name>>
        default_score == IF dir.name = "sample" THEN 0 ELSE 1
        default_aggregation ==
            IF dir.name \in {"data", "secret", "sample"}
            THEN "sum" ELSE "min"
    IN  [path |-> path,
         conf |-> [score |-> IF dir.score = None
                             THEN default_score ELSE dir.score[1],
                   aggregation |-> IF dir.aggregation = None
                                   THEN default_aggregation
                                   ELSE dir.aggregation[1]],
         testcases |-> [i \in 1..dir.cases |-> [dir |-> path, nr |-> i]],
         subgroups |-> [i \in 1..Len(dir.subdirs) |->
                           SubtaskNode(dir.subdirs[i], path)]]

\* SubtaskNode.list_testcases: the node's own testcases, then those of its
\* subgroups in order.
RECURSIVE list_testcases(_)
RECURSIVE list_testcases_from(_, _)
list_testcases_from(subgroups, i) ==
    IF i > Len(subgroups) THEN <<>>
    ELSE list_testcases(subgroups[i]) \o list_testcases_from(subgroups, i + 1)

list_testcases(node) ==
    node.testcases \o list_testcases_from(node.subgroups, 1)

Raised == [raised |-> TRUE, groups |-> <<>>]

\* SubtaskNode.to_testcase_group: [score, len(testcases)], the score
\* divided by the number of testcases under "sum" (ZeroDivisionError when
\* there is none).  The score is kept as a fraction, and the group
\* remembers the node it was made from.
to_testcase_group(node) ==
    IF Len(node.subgroups) > 0 THEN Raised
    ELSE IF node.conf.aggregation = "sum" /\ Len(node.testcases) = 0
    THEN Raised
    ELSE [raised |-> FALSE,
          groups |-> <<[score |-> [num |-> node.conf.score,
                                   den |-> IF node.conf.aggregation = "sum"
                                           THEN Len(node.testcases) ELSE 1],
                        count |-> Len(node.testcases),
                        of |-> node.path]>>]

\* SubtaskNode.to_groups: the groups of the subgroups in order, a subgroup
\* with subgroups of its own giving the groups of those.
RECURSIVE to_groups(_)
RECURSIVE to_groups_from(_, _)
to_groups_from(subgroups, i) ==
    IF i > Len(subgroups) THEN [raised |-> FALSE, groups |-> <<>>]
    ELSE LET subgroup == subgroups[i]
             head == IF Len(subgroup.subgroups) > 0
                     THEN to_groups(subgroup)
                     ELSE to_testcase_group(subgroup)
         IN  IF head.raised THEN Raised
             ELSE LET rest == to_groups_from(subgroups, i + 1)
                  IN  IF rest.raised THEN Raised
                      ELSE [raised |-> FALSE,
                            groups |-> head.groups \o rest.groups]

\* Mutant of to_groups: a group with testcases of its own is let through.
to_groups_allowing_testcases(node) ==
    IF node.conf.aggregation # "sum" THEN Raised
    ELSE to_groups_from(node.subgroups, 1)

to_groups(node) ==
    IF node.conf.aggregation # "sum" THEN Raised
    ELSE IF Len(node.testcases) > 0 THEN Raised
    ELSE to_groups_from(node.subgroups, 1)

NoScoreType == [raised |-> FALSE, score_type |-> None]
RaisedScoreType == [raised |-> TRUE, score_type |-> None]

\* Mutant of Combine: a differing group type replaces the one found so far.
Combine_last_wins(score_type, group_type) ==
    IF score_type.raised \/ group_type.raised THEN RaisedScoreType
    ELSE [raised |-> FALSE,
          score_type |-> IF group_type.score_type # None
                         THEN group_type.score_type
                         ELSE score_type.score_type]

\* One turn of the loop of score_type: two types that are both there and
\* differ raise; otherwise score_type = score_type or group_type.
Combine(score_type, group_type) ==
    IF score_type.raised \/ group_type.raised THEN RaisedScoreType
    ELSE IF /\ score_type.score_type # None
            /\ group_type.score_type # None
            /\ score_type.score_type # group_type.score_type
    THEN RaisedScoreType
    ELSE [raised |-> FALSE,
          score_type |-> IF score_type.score_type # None
                         THEN score_type.score_type
                         ELSE group_type.score_type]

\* SubtaskNode.score_type: the aggregation the groups with a score other
\* than 0 agree on, None when there is no such group.
RECURSIVE score_type(_)
RECURSIVE score_type_from(_, _, _)
score_type_from(subgroups, i, so_far) ==
    IF i > Len(subgroups) \/ so_far.raised THEN so_far
    ELSE LET subgroup == subgroups[i]
             group_type ==
                 IF Len(subgroup.subgroups) > 0 THEN score_type(subgroup)
                 ELSE IF subgroup.conf.score = 0 THEN NoScoreType
                 ELSE [raised |-> FALSE,
                       score_type |-> Some(subgroup.conf.aggregation)]
         IN  score_type_from(subgroups, i + 1, Combine(so_far, group_type))

score_type(node) ==
    IF node.conf.aggregation # "sum" THEN RaisedScoreType
    ELSE score_type_from(node.subgroups, 1, NoScoreType)

\* The test-data trees: data/sample and data/secret, where secret holds its
\* testcases itself or has the groups g1 and g2 below it.  Every directory
\* may come with a testdata.yaml that sets score or aggregation.
MaxCases == 2
SeqOfUpToTwo(A, B) ==
    {<<>>} \cup {<<a>> : a \in A} \cup {<<b>> : b \in B}
        \cup {<<a, b>> : a \in A, b \in B}
GroupDirs(name) ==
    {Dir(name, s, a, c, <<>>) :
        s \in {None, Some(0)}, a \in {None, Some("sum")}, c \in 0..MaxCases}
SecretDirs ==
    {Dir("secret", s, a, c, <<>>) :
        s \in {None, Some(0)}, a \in {None, Some("min")}, c \in 0..MaxCases}
    \cup {Dir("secret", None, a, c, d) :
            a \in {None, Some("min")}, c \in {0, 1},
            d \in SeqOfUpToTwo(GroupDirs("g1"), GroupDirs("g2")) \ {<<>>}}
SampleDirs ==
    {Dir("sample", s, a, c, <<>>) :
        s \in {None, Some(1)}, a \in {None, Some("min")}, c \in 0..MaxCases}
DataDirs ==
    {Dir("data", None, a, c, d) :
        a \in {None, Some("min")}, c \in {0, 1},
        d \in SeqOfUpToTwo(SampleDirs, SecretDirs)}

\* KattisLoader.get_task, the part that reads the test data: the score
\* type, the groups as score type parameters, and a testcase numbered i for
\* the i-th entry of list_testcases(), counted from 0.
get_task ==
    /\ pc = "get_task"
    /\ LET subtasks == SubtaskNode(loader.tree[1], <<>>)
           type == score_type(subtasks)
           groups == to_groups(subtasks)
           testcases == list_testcases(subtasks)
       IN  IF type.raised \/ groups.raised
           THEN /\ pc' = "raised"
                /\ loader' = loader
           ELSE /\ pc' = "loaded"
                /\ loader' =
                     [loader EXCEPT
                        !.score_type = IF type.score_type = Some("min")
                                       THEN "GroupMin" ELSE "GroupSum",
                        !.score_type_parameters = groups.groups,
                        !.testcases = [i \in 1..Len(testcases) |->
                                          [codename |-> i - 1,
                                           file |-> testcases[i]]]]
    /\ UNCHANGED <<interactive, n_commands, job, config_keep_sandbox,
                   config_trusted, dirs, sandboxes, procs, multiplier, probe,
                   chan, prog>>

\* A task is loaded from any of the trees; no job is there yet.
InitLoader ==
    /\ pc = "get_task"
    /\ loader \in [tree : {Some(d) : d \in DataDirs}, score_type : {""},
                   score_type_parameters : {<<>>}, testcases : {<<>>}]
    /\ job = [success |-> None]
    /\ interactive = FALSE
    /\ n_commands = 1
    /\ config_keep_sandbox = FALSE
    /\ config_trusted = [trusted_sandbox_max_time_s |-> 2,
                         trusted_sandbox_max_memory_kib |-> 1]
    /\ dirs = [d \in DirNames |-> "absent"]
    /\ sandboxes = [s \in Sides |-> "none"]
    /\ procs = [s \in Sides |-> NoProcess]
    /\ multiplier = None
    /\ probe = [extracted |-> 0, read |-> 0, writes |-> 0]
    /\ chan = NoChannels
    /\ prog = NoPrograms

NextLoader == get_task

SpecLoader == InitLoader /\ [][NextLoader]_vars

\* What the two sandboxes hold once both processes have ended.
ManagerTelemetry == procs.manager.telemetry[1]
UserTelemetry == procs.user.telemetry[1]
\* _get_results has returned and filled in the job.
Collected == pc \in {"cleanup", "done"}
\* _get_results was entered and left, by a return or by an exception.
AfterResults == pc \in {"cleanup", "done", "raised"} /\ procs.manager.waits > 0
BothSandboxesOk ==
    /\ ManagerTelemetry.exit_status # EXIT_SANDBOX_ERROR
    /\ UserTelemetry.exit_status # EXIT_SANDBOX_ERROR
UserFault ==
    UserTelemetry.exit_status \in
        {EXIT_TIMEOUT, EXIT_TIMEOUT_WALL, EXIT_SIGNAL, EXIT_NONZERO_RETURN}
ManagerVerdict == ManagerTelemetry.exit_code \in {EXIT_ACCEPT, EXIT_REJECT}
\* The manager ended normally or with one of its two verdicts.
ManagerEndedWell == ManagerTelemetry.exit_status = EXIT_OK \/ ManagerVerdict
RetentionRequested == job.keep_sandbox \/ config_keep_sandbox

ZeroString == <<"0", ".", "0">>
OneString == <<"1", ".", "0">>
ExecutionText == <<"Execution completed successfully">>
ViolationText ==
    CASE UserTelemetry.exit_status = EXIT_TIMEOUT ->
            <<"Execution timed out">>
      [] UserTelemetry.exit_status = EXIT_TIMEOUT_WALL ->
            <<"Execution timed out (wall clock limit exceeded)">>
      [] UserTelemetry.exit_status = EXIT_SIGNAL ->
            <<"Execution killed (could be triggered by violating memory limits)">>
      [] UserTelemetry.exit_status = EXIT_NONZERO_RETURN ->
            <<"Execution failed because the return code was nonzero">>
      [] OTHER -> <<>>

\* C1 (as claimed): after _get_results, a manager exit code outside {42, 43}
\* always leaves the job with success = false, exit code 0 included.
C1_MalfunctionFails ==
    (Collected /\ ~ManagerVerdict) => job.success = Some(FALSE)

\* C2 (as claimed): after _get_results, a manager exit code outside {42, 43}
\* always leaves the job's outcome null, whatever the user process did and
\* whether or not only_execution is set.
C2_MalfunctionHasNoOutcome ==
    (Collected /\ ~ManagerVerdict) => job.outcome = None

\* Both processes are there and each waits for the other.
Deadlocked == Blocked("manager") /\ Blocked("user")

\* C3 (as claimed): in the echo scenario the two processes never deadlock,
\* and the evaluation ends with success, outcome 1.0 and the text 'success',
\* for every interleaving and every order of the FIFO opens.
C3_EchoNeverDeadlocks ==
    /\ ~Deadlocked
    /\ pc = "done"
       => /\ job.success = Some(TRUE)
          /\ job.outcome = Some(OneString)
          /\ job.text = Some(<<"Output is correct">>)

\* C4 (as claimed): user evaluation not ok, both sandboxes ok and the manager
\* exited with 42: success is true, the outcome is 0.0, the text is the
\* violation text, and the extractor is not called nor the multiplier read.
C4_UserFaultViolationText ==
    (Collected /\ BothSandboxesOk /\ UserFault
        /\ ManagerTelemetry.exit_code = EXIT_ACCEPT)
    => /\ job.success = Some(TRUE)
       /\ job.outcome = Some(ZeroString)
       /\ job.text = Some(ViolationText)
       /\ probe.extracted = 0
       /\ probe.read = 0

\* C4 (amended): in that case success is true, the outcome is 0.0, the
\* extractor is not called and the multiplier file is not read; the text is
\* the violation text when only_execution is not set and the fixed execution
\* text when it is set.
C4_UserFaultNoExtraction ==
    (AfterResults /\ BothSandboxesOk /\ UserFault
        /\ ManagerTelemetry.exit_code = EXIT_ACCEPT)
    => /\ Collected
       /\ job.success = Some(TRUE)
       /\ job.outcome = Some(ZeroString)
       /\ job.text = Some(IF job.only_execution THEN ExecutionText
                          ELSE ViolationText)
       /\ probe.extracted = 0
       /\ probe.read = 0

\* The user timed out, the manager accepted and left an unparsable
\* multiplier file, and the job was scored 0.0 all the same.
C4_Witness ==
    /\ pc = "done"
    /\ UserTelemetry.exit_status = EXIT_TIMEOUT_WALL
    /\ ManagerTelemetry.exit_code = EXIT_ACCEPT
    /\ multiplier = Some(<<"-">>)
    /\ ~job.only_execution
    /\ job.outcome = Some(ZeroString)

\* C5 (as claimed): a contestant-side fault with both sandboxes working gives
\* success = true and outcome 0.0 with a text, whatever the manager's exit
\* code was.
C5_UserFaultAlwaysScored ==
    (Collected /\ BothSandboxesOk /\ UserFault)
    => /\ job.success = Some(TRUE)
       /\ job.outcome = Some(ZeroString)
       /\ job.text # None

\* C5 (amended): a contestant-side fault with both sandboxes working gives
\* success = true and outcome 0.0 with a non-empty text provided the manager
\* ended normally or with exit code 42 or 43; with any other manager ending
\* the job has success = false and a null outcome.
C5_UserFaultScoredIfManagerEndedWell ==
    (AfterResults /\ BothSandboxesOk /\ UserFault)
    => /\ Collected
       /\ IF ManagerEndedWell
          THEN /\ job.success = Some(TRUE)
               /\ job.outcome = Some(ZeroString)
               /\ job.text # None
               /\ job.text[1] # <<>>
          ELSE /\ job.success = Some(FALSE)
               /\ job.outcome = None

\* The user was killed by a signal, the manager rejected, the job is scored.
C5_Witness ==
    /\ pc = "done"
    /\ UserTelemetry.exit_status = EXIT_SIGNAL
    /\ ManagerTelemetry.exit_code = EXIT_REJECT
    /\ job.success = Some(TRUE)
    /\ job.outcome = Some(ZeroString)

\* C6 (as claimed): with only_execution set the evaluation always ends with
\* outcome 0.0 and the fixed text, for every manager and user result.
C6_ExecutionAlwaysScored ==
    (Collected /\ job.only_execution)
    => /\ job.outcome = Some(ZeroString)
       /\ job.text = Some(ExecutionText)

\* C6 (amended): with only_execution set, the evaluation ends with outcome
\* 0.0 and the fixed text whenever both sandboxes worked and the manager
\* ended normally or with exit code 42 or 43, for every user result and every
\* multiplier file; otherwise it ends with success = false and no outcome.
C6_ExecutionScoredIfReducerSucceeds ==
    (AfterResults /\ job.only_execution)
    => /\ Collected
       /\ IF BothSandboxesOk /\ ManagerEndedWell
          THEN /\ job.success = Some(TRUE)
               /\ job.outcome = Some(ZeroString)
               /\ job.text = Some(ExecutionText)
          ELSE /\ job.success = Some(FALSE)
               /\ job.outcome = None
               /\ job.text = None

\* only_execution, the user crashed, the manager rejected: still the fixed
\* text and 0.0.
C6_Witness ==
    /\ pc = "done"
    /\ job.only_execution
    /\ UserTelemetry.exit_status = EXIT_NONZERO_RETURN
    /\ ManagerTelemetry.exit_code = EXIT_REJECT
    /\ job.text = Some(ExecutionText)

\* The number a decimal string denotes, compared as numbers (-0.0 = 0.0).
SameNumber(a, b) == a.mag = b.mag /\ (a.neg = b.neg \/ a.mag = 0)
InUnitInterval(v) == v.mag = 0 \/ (~v.neg /\ v.mag <= Scale)
StrictlyInside(v) == ~v.neg /\ 0 < v.mag /\ v.mag < Scale
\* The extractor decides: accept, everything else in order.
AcceptedCleanly ==
    /\ AfterResults
    /\ BothSandboxesOk
    /\ ManagerTelemetry.exit_code = EXIT_ACCEPT
    /\ UserTelemetry.exit_status = EXIT_OK
    /\ ~job.only_execution

\* C7: with exit code 42, both sandboxes ok, the user evaluation ok and
\* only_execution not set, a multiplier file holding v in [0, 1] gives the
\* outcome v, with the 'partial' text exactly when 0 < v < 1 and 'success'
\* otherwise; without the file the outcome is 1.0 and the text 'success'.
C7_MultiplierIsOutcome ==
    AcceptedCleanly
    => IF multiplier = None
       THEN /\ Collected
            /\ job.outcome = Some(OneString)
            /\ job.text = Some(<<"Output is correct">>)
       ELSE (float_ok(multiplier[1]) /\ InUnitInterval(float(multiplier[1])))
            => /\ Collected
               /\ job.success = Some(TRUE)
               /\ job.outcome # None
               /\ float_ok(job.outcome[1])
               /\ SameNumber(float(job.outcome[1]), float(multiplier[1]))
               /\ job.text =
                    Some(<<IF StrictlyInside(float(multiplier[1]))
                           THEN "Output is partially correct"
                           ELSE "Output is correct">>)

\* The manager accepted with the multiplier ".5": outcome 0.5, 'partial'.
C7_Witness ==
    /\ pc = "done"
    /\ AcceptedCleanly
    /\ multiplier = Some(<<".", "5">>)
    /\ job.outcome = Some(<<"0", ".", "5">>)
    /\ job.text = Some(<<"Output is partially correct">>)

\* C8: when the extractor is called with manager exit code 43 the result is
\* outcome 0.0 with the 'wrong' text and the multiplier file is not read,
\* whether the file is absent, holds a value or is unparsable.
C8_RejectIgnoresMultiplier ==
    (AfterResults /\ probe.extracted > 0
        /\ ManagerTelemetry.exit_code = EXIT_REJECT)
    => /\ Collected
       /\ job.outcome = Some(ZeroString)
       /\ job.text = Some(<<"Output isn't correct">>)
       /\ probe.read = 0

\* The manager rejected and left a multiplier of 1: the outcome is 0.0.
C8_Witness ==
    /\ pc = "done"
    /\ probe.extracted = 1
    /\ ManagerTelemetry.exit_code = EXIT_REJECT
    /\ multiplier = Some(<<"1">>)
    /\ job.outcome = Some(ZeroString)

\* The scratch directories each orchestrator creates.
Created == IF interactive THEN {"fifo_dir", "feedback_dir"}
           ELSE {"output_dir", "feedback_dir"}

\* C9 (as claimed): after an evaluation that ends with success = true and no
\* retention requested, none of its scratch directories remains, in either
\* mode.
C9_ScratchRemovedOnSuccess ==
    (pc = "done" /\ job.success = Some(TRUE) /\ ~RetentionRequested)
    => \A d \in DirNames : dirs[d] # "present"

\* C10: a scratch directory is removed only when the job succeeded and no
\* retention was requested; after an evaluation that ends with success =
\* false, or with retention requested, every directory it created is still
\* there, in both modes.
C10_ScratchKeptOtherwise ==
    /\ (\E d \in DirNames : dirs[d] = "removed")
       => (job.success = Some(TRUE) /\ ~RetentionRequested)
    /\ (pc = "done" /\ (job.success = Some(FALSE) \/ RetentionRequested))
       => \A d \in Created : dirs[d] = "present"

\* A successful interactive evaluation with config.keep_sandbox set: both
\* directories are still there.
C10_Witness ==
    /\ pc = "done"
    /\ interactive
    /\ job.success = Some(TRUE)
    /\ config_keep_sandbox
    /\ ~job.keep_sandbox
    /\ dirs.fifo_dir = "present"
    /\ dirs.feedback_dir = "present"

\* C11: in the non-interactive path the manager is never started before the
\* wait on the user process has returned; the order is start user, wait
\* user, start manager, wait manager, collect results, and the two
\* processes are never running at the same time.
C11_NonInteractiveSequential ==
    ~interactive =>
        /\ procs.manager.state # "unstarted"
           => (procs.user.state = "ended" /\ procs.user.waits = 1)
        /\ procs.user.waits > 0 => procs.user.state = "ended"
        /\ procs.manager.waits > 0
           => (procs.manager.state = "ended" /\ procs.user.waits = 1)
        /\ ~(procs.manager.state = "running" /\ procs.user.state = "running")
        /\ probe.extracted + probe.read > 0 \/ Collected
           => (procs.user.waits = 1 /\ procs.manager.waits = 1)

\* The manager of a non-interactive evaluation is running: the user process
\* has ended and was waited for.
C11_Witness ==
    /\ ~interactive
    /\ pc = "N_wait_manager"
    /\ procs.manager.state = "running"
    /\ procs.user.state = "ended"
    /\ procs.user.waits = 1

\* The sandboxes were handed to delete_sandbox, or a directory was removed.
CleanedUp ==
    \/ \E s \in Sides : sandboxes[s] \in {"deleted", "kept"}
    \/ \E d \in DirNames : dirs[d] = "removed"

\* C12: the interactive path goes through channels created, manager
\* started, user started, one joint wait, results collected, cleanup, in
\* that order: both processes are started before the one wait, the wait
\* covers both handles, and results are collected only after it returned.
C12_InteractiveOrder ==
    interactive =>
        /\ procs.manager.state # "unstarted"
           => (chan.u_to_m.made /\ chan.m_to_u.made
               /\ dirs.fifo_dir # "absent" /\ dirs.feedback_dir # "absent")
        /\ procs.user.state # "unstarted" => procs.manager.state # "unstarted"
        /\ procs.manager.waits = procs.user.waits
        /\ procs.user.waits <= 1
        /\ procs.user.waits = 1
           => \A s \in Sides : procs[s].state = "ended"
        /\ probe.extracted + probe.read > 0 \/ Collected
           => procs.user.waits = 1
        /\ CleanedUp => (pc = "done" /\ job.success # None)

\* An interactive evaluation after its cleanup: one wait covered both
\* processes.
C12_Witness ==
    /\ interactive
    /\ pc = "done"
    /\ procs.manager.waits = 1
    /\ procs.user.waits = 1
    /\ chan.u_to_m.made
    /\ CleanedUp

\* C13 (as claimed): the outcome an evaluation reports is null or a number
\* in [0, 1], whatever the multiplier file holds, parsable numbers below 0
\* or above 1 included.
C13_OutcomeInUnitInterval ==
    job.outcome # None
    => (float_ok(job.outcome[1]) /\ InUnitInterval(float(job.outcome[1])))

\* C14 (as claimed): with manager exit code 42, the user evaluation ok and a
\* multiplier file that does not parse as a number, the evaluation ends as
\* a manager malfunction: the job is given success = false and a null
\* outcome, never the default 1.0, and the evaluation goes on to cleanup.
C14_UnparsableIsMalfunction ==
    (AcceptedCleanly /\ multiplier # None /\ ~float_ok(multiplier[1]))
    => /\ Collected
       /\ job.success = Some(FALSE)
       /\ job.outcome = None

\* C15 (as claimed): when the creation of the channel directory, of either
\* pipe, of the feedback directory or of the output directory fails, the
\* evaluation is aborted as an infrastructure error: the job ends with
\* success = false and a null outcome, no process has been started, and the
\* channel is not left with one pipe and not the other.
C15_CreationFailureAborts ==
    pc = "oserror"
    => /\ job.success = Some(FALSE)
       /\ job.outcome = None
       /\ \A s \in Sides : procs[s].state = "unstarted"
       /\ chan.u_to_m.made = chan.m_to_u.made

\* The three ways the claimed abort is missed: the job's fields are left
\* unset, a process ran before the failure, one pipe exists alone.
C15_FieldsSet == pc = "oserror" => job.success = Some(FALSE)
C15_NoProcess ==
    pc = "oserror" => \A s \in Sides : procs[s].state = "unstarted"
C15_NoHalfChannel == pc = "oserror" => chan.u_to_m.made = chan.m_to_u.made

\* C16: in both modes the manager's time limit is the larger of the user's
\* time limit plus one second and the trusted maximum, so it is above the
\* user's time limit and not below the trusted maximum; the user process
\* gets the task's time limit and memory limit as they are.
C16_ManagerOutlivesUser ==
    /\ procs.manager.state # "unstarted"
       => LET limit == procs.manager.time_limit[1]
              trusted == config_trusted.trusted_sandbox_max_time_s
          IN  /\ limit > job.time_limit
              /\ limit >= trusted
              /\ limit \in {job.time_limit + 1, trusted}
    /\ procs.user.state # "unstarted"
       => /\ procs.user.time_limit = Some(job.time_limit)
          /\ procs.user.memory_limit = Some(job.memory_limit)

\* Both maxima occur: a manager limited by the trusted maximum next to a
\* shorter user limit, and the user process given the larger memory limit.
C16_Witness ==
    /\ pc = "done"
    /\ job.time_limit = 1
    /\ job.memory_limit = 2048
    /\ config_trusted.trusted_sandbox_max_time_s = 3
    /\ procs.manager.time_limit = Some(3)
    /\ procs.user.time_limit = Some(1)
    /\ procs.user.memory_limit = Some(2048)

\* C17: when the user's sandbox failed, or the manager's sandbox failed, or
\* the manager's evaluation status is not ok once exit codes 42 and 43 count
\* as ok, the job gets success = false and null outcome, text and stats,
\* also when only_execution is set and when the user process broke a limit.
C17_FailureComesFirst ==
    (AfterResults /\ ~(BothSandboxesOk /\ ManagerEndedWell))
    => /\ Collected
       /\ job.success = Some(FALSE)
       /\ job.outcome = None
       /\ job.text = None
       /\ job.plus = None

\* only_execution is set, the user process broke a limit and the manager
\* was killed without a verdict: the job failed with nothing else in it.
C17_Witness ==
    /\ pc = "done"
    /\ job.only_execution
    /\ BothSandboxesOk
    /\ UserFault
    /\ ~ManagerEndedWell
    /\ job.success = Some(FALSE)
    /\ job.plus = None

\* evaluate() has been left, by a return or by an exception.
Left == pc \in {"done", "returned", "raised", "oserror"}

\* C18 (as claimed): on every path of evaluate, in both modes and also with
\* more than one evaluation command, each process is started at most once,
\* every process that was started has been waited for exactly once when
\* evaluate is left, and no sandbox is deleted before its process was
\* waited for.
C18_StartedOnceWaitedOnce ==
    \A s \in Sides :
        /\ procs[s].starts <= 1
        /\ procs[s].waits <= procs[s].starts
        /\ Left => procs[s].waits = procs[s].starts
        /\ sandboxes[s] \in {"deleted", "kept"} => procs[s].waits = 1

\* A directory is removed only once every started process was waited for
\* and the job's result fields are set.
RemovedOnlyAfterResults ==
    (\E d \in DirNames : dirs[d] = "removed")
    => /\ \A s \in Sides : procs[s].starts = 1 /\ procs[s].waits = 1
       /\ job.success # None

\* C19 (as claimed): every scratch directory of an evaluation is created
\* before any of its processes is started, and removed only after all the
\* started processes were waited for and the results collected, in both
\* paths.
C19_ScratchBeforeAnyProcess ==
    /\ (\E s \in Sides : procs[s].starts > 0)
       => \A d \in Created : dirs[d] # "absent"
    /\ RemovedOnlyAfterResults

\* C19 (amended): every scratch directory is created before the processes
\* it is mapped into are started.  In the interactive path that is before
\* any process; in the non-interactive path the output directory is created
\* before any process, and the feedback directory after the user process
\* was waited for and before the manager is started.  A directory is
\* removed only after all the processes were waited for and the results
\* collected.
C19_ScratchBeforeItsProcesses ==
    /\ \A s \in Sides :
          procs[s].starts > 0
          => \A d \in procs[s].dirs_map : dirs[d] # "absent"
    /\ (interactive /\ \E s \in Sides : procs[s].starts > 0)
       => \A d \in Created : dirs[d] # "absent"
    /\ ~interactive
       => /\ procs.user.starts > 0 => dirs.output_dir # "absent"
          /\ dirs.feedback_dir # "absent" => procs.user.waits = 1
          /\ procs.manager.starts > 0 => dirs.feedback_dir # "absent"
          /\ procs.manager.starts > 0
             => procs.manager.dirs_map = {"output_dir", "feedback_dir"}
    /\ RemovedOnlyAfterResults

\* A non-interactive evaluation whose feedback directory was created after
\* the user process ended and removed after both waits.
C19_Witness ==
    /\ ~interactive
    /\ pc = "done"
    /\ dirs.feedback_dir = "removed"
    /\ dirs.output_dir = "present"
    /\ procs.user.waits = 1
    /\ procs.manager.waits = 1
    /\ procs.manager.dirs_map = {"output_dir", "feedback_dir"}

\* C20 (as claimed): an interactive evaluation whose manager was started
\* always gets through the joint wait to the end of the cleanup with the
\* job's result fields set, whatever the two processes do: it never comes
\* to rest anywhere else.
C20_InteractiveReachesCleanup ==
    (interactive /\ procs.manager.starts > 0 /\ ~ENABLED Next)
    => /\ pc = "done"
       /\ job.success # None
       /\ \A s \in Sides : procs[s].waits = 1

\* A partial outcome has the manager's multiplier file behind it.
C21_PartialFromMultiplier ==
    (job.outcome # None /\ StrictlyInside(float(job.outcome[1])))
    => /\ AcceptedCleanly
       /\ multiplier # None
       /\ float_ok(multiplier[1])
       /\ SameNumber(float(multiplier[1]), float(job.outcome[1]))

\* C21 (as claimed): an outcome strictly between 0 and 1 occurs only when
\* the manager exited with 42, the multiplier file held exactly that value,
\* both sandboxes were ok, the user evaluation was ok and only_execution
\* was not set; in every other case the outcome is null, 0.0 or 1.0.
C21_PartialOnlyFromMultiplier ==
    /\ C21_PartialFromMultiplier
    /\ (job.outcome # None /\ ~StrictlyInside(float(job.outcome[1])))
       => LET v == float(job.outcome[1])
          IN  v.mag = 0 \/ (~v.neg /\ v.mag = Scale)

ResultFields == <<job.success, job.outcome, job.text, job.plus>>
NoResults == <<None, None, None, None>>

\* C22 (as claimed): the job's result fields are written exactly once, all
\* together by _get_results, after the last wait of the evaluation has
\* returned; until then they are unchanged, so nothing of the result can be
\* seen while a process is running.  An evaluation that the two opening
\* checks turn away is left aside: there the check marks the job.
C22_ResultsWrittenOnce ==
    pc # "returned"
    => /\ probe.writes <= 1
       /\ Left => probe.writes = 1
       /\ probe.writes = 0 => ResultFields = NoResults
       /\ probe.writes = 1
          => /\ job.success # None
             /\ \A s \in Sides : procs[s].waits = 1
       /\ (\E s \in Sides : procs[s].state = "running")
          => ResultFields = NoResults

\* What holds of the writes on every path: never more than one, never
\* before the last wait, never while a process is running.
C22_NoEarlyResults ==
    pc # "returned"
    => /\ probe.writes <= 1
       /\ probe.writes = 0 => ResultFields = NoResults
       /\ probe.writes = 1
          => /\ job.success # None
             /\ \A s \in Sides : procs[s].waits = 1
       /\ (\E s \in Sides : procs[s].state = "running")
          => ResultFields = NoResults

\* The processes given pipe p as their stdin, and as their stdout.
Readers(p) == {s \in Sides : procs[s].stdin_redirect = Some(p)}
Writers(p) == {s \in Sides : procs[s].stdout_redirect = Some(p)}
PipeNames == {"u_to_m", "m_to_u"}

PipesBoundCrosswise ==
    /\ Readers("u_to_m") \subseteq {"manager"}
    /\ Writers("u_to_m") \subseteq {"user"}
    /\ Readers("m_to_u") \subseteq {"user"}
    /\ Writers("m_to_u") \subseteq {"manager"}
    /\ \A s \in Sides :
          procs[s].starts > 0
          => /\ procs[s].stdin_redirect \in {Some(p) : p \in PipeNames}
             /\ procs[s].stdout_redirect \in {Some(p) : p \in PipeNames}
             /\ procs[s].stdin_redirect # procs[s].stdout_redirect
    /\ \A p \in PipeNames :
          /\ chan[p].rd # "closed" => Readers(p) # {}
          /\ chan[p].wr # "closed" => Writers(p) # {}
          /\ chan[p].buf > 0 => Writers(p) # {}

\* A step of the orchestrator leaves the ends and the content of both
\* pipes as they are.
OrchestratorKeepsOff ==
    pc' # pc
    => \A p \in PipeNames :
          /\ chan'[p].rd = chan[p].rd
          /\ chan'[p].wr = chan[p].wr
          /\ chan'[p].buf = chan[p].buf

CompiledName ==
    _executable_filename(job.files, job.language.executable_extension)

\* C24: the executable's name is the same for every ordering of the same
\* codenames, so the name compile computes from the job's files equals the
\* one get_compilation_commands computes from the submission format; it
\* ends with the language's executable extension; and after compile the
\* job holds an executable, under that name, exactly when both the sandbox
\* and the compilation succeeded.
C24_ExecutableNameDeterministic ==
    pc \in {"compile", "compiled", "returned"}
    => /\ \A submission_format \in Orderings(job.files) :
             get_compilation_commands(
                 submission_format, job.language.source_extension,
                 job.language.executable_extension).executable_filename
             = CompiledName
       /\ LET ext == job.language.executable_extension
              n == Len(CompiledName)
          IN  /\ n >= Len(ext)
              /\ SubSeq(CompiledName, n - Len(ext) + 1, n) = ext
       /\ pc = "compile" => job.executables = {}
       /\ pc = "returned" => job.executables = {}
       /\ pc = "compiled"
          => IF job.success = Some(TRUE)
                /\ job.compilation_success = Some(TRUE)
             THEN job.executables = {CompiledName}
             ELSE job.executables = {}

\* Two files that the dict gives in the order b, a, compiled: the
\* executable is a_b.
C24_Witness ==
    /\ pc = "compiled"
    /\ job.files = <<<<"b", ".", "%", "l">>, <<"a", ".", "%", "l">>>>
    /\ job.language.executable_extension = <<>>
    /\ job.success = Some(TRUE)
    /\ job.executables = {<<"a", "_", "b">>}

\* The number of testcases in the groups before the k-th.
RECURSIVE CasesBefore(_, _)
CasesBefore(groups, k) ==
    IF k <= 1 THEN 0
    ELSE CasesBefore(groups, k - 1) + groups[k - 1].count

\* The tree being loaded, as SubtaskNode reads it.
LoadedRoot == SubtaskNode(loader.tree[1], <<>>)

\* C25: whenever to_groups() returns, the testcase counts of its groups add
\* up to len(list_testcases()), and the k-th group's testcases are the next
\* of that list after those of the groups before it: each group covers a
\* contiguous block of the consecutively numbered testcases registered.
C25_GroupsCoverTestcases ==
    loader.tree # None
    => LET groups == to_groups(LoadedRoot)
           testcases == list_testcases(LoadedRoot)
           n == Len(groups.groups)
       IN  /\ ~groups.raised
              => /\ CasesBefore(groups.groups, n + 1) = Len(testcases)
                 /\ \A k \in 1..n :
                       \A i \in 1..groups.groups[k].count :
                          LET t == testcases[CasesBefore(groups.groups, k) + i]
                          IN  /\ t.dir = groups.groups[k].of
                              /\ t.nr = i
           /\ pc = "loaded"
              => /\ ~groups.raised
                 /\ loader.score_type_parameters = groups.groups
                 /\ Len(loader.testcases) = Len(testcases)
                 /\ \A i \in 1..Len(testcases) :
                       /\ loader.testcases[i].codename = i - 1
                       /\ loader.testcases[i].file = testcases[i]

\* A task loaded from sample with one testcase and secret with the groups
\* g1 and g2 of two testcases each: three groups, five testcases.
C25_Witness ==
    /\ pc = "loaded"
    /\ Len(loader.score_type_parameters) = 3
    /\ loader.score_type_parameters[1].count = 1
    /\ loader.score_type_parameters[2].count = 2
    /\ loader.score_type_parameters[3].of = <<"data", "secret", "g2">>
    /\ Len(loader.testcases) = 5
    /\ loader.testcases[4].file.dir = <<"data", "secret", "g2">>

\* The nodes below a node, at any depth.
RECURSIVE Below(_)
Below(node) ==
    UNION {{node.subgroups[i]} \cup Below(node.subgroups[i]) :
              i \in 1..Len(node.subgroups)}

\* The leaf groups with a score other than 0, and the groups that hold
\* other groups, the root among them.
ScoringLeaves ==
    {n \in Below(LoadedRoot) : Len(n.subgroups) = 0 /\ n.conf.score # 0}
HoldingGroups ==
    {LoadedRoot} \cup {n \in Below(LoadedRoot) : Len(n.subgroups) > 0}
SomeLeafUses(aggregation) ==
    \E n \in ScoringLeaves : n.conf.aggregation = aggregation
HoldersUseSum == \A n \in HoldingGroups : n.conf.aggregation = "sum"

\* C26 (as claimed): score_type() on the root returns 'min' exactly when
\* some leaf group with a score other than 0 uses 'min' and none uses
\* 'sum'; it raises when two such leaf groups use different aggregations;
\* leaf groups with score 0 have no say; the loader takes GroupMin in the
\* first case only.
C26_MinExactlyWhenLeavesSayMin ==
    loader.tree # None
    => LET r == score_type(LoadedRoot)
       IN  /\ (~r.raised /\ r.score_type = Some("min"))
              <=> (SomeLeafUses("min") /\ ~SomeLeafUses("sum"))
           /\ (SomeLeafUses("min") /\ SomeLeafUses("sum")) => r.raised
           /\ pc = "loaded"
              => (loader.score_type = "GroupMin"
                  <=> (SomeLeafUses("min") /\ ~SomeLeafUses("sum")))

\* C26 (amended): score_type() raises exactly when some group that holds
\* other groups, the root included, does not aggregate by 'sum', or two
\* leaf groups with a score other than 0 use different aggregations.
\* Otherwise it returns the aggregation those leaf groups agree on, None
\* when there is none, so it returns 'min' exactly when, on top of not
\* raising, some such leaf group uses 'min'.  Leaf groups with score 0 have
\* no say, and the loader takes GroupMin for 'min' and GroupSum otherwise.
C26_MinWhenLeavesSayMinAndHoldersSum ==
    loader.tree # None
    => LET r == score_type(LoadedRoot)
       IN  /\ r.raised
              <=> \/ ~HoldersUseSum
                  \/ SomeLeafUses("min") /\ SomeLeafUses("sum")
           /\ ~r.raised
              => r.score_type =
                    IF SomeLeafUses("min") THEN Some("min")
                    ELSE IF SomeLeafUses("sum") THEN Some("sum")
                    ELSE None
           /\ pc = "loaded"
              => /\ ~r.raised
                 /\ loader.score_type =
                       IF SomeLeafUses("min") THEN "GroupMin" ELSE "GroupSum"

\* A task loaded with GroupMin: sample has score 0 and aggregation sum, the
\* groups below secret use min.
C26_Witness ==
    /\ pc = "loaded"
    /\ loader.score_type = "GroupMin"
    /\ \E n \in Below(LoadedRoot) :
          /\ n.path = <<"data", "sample">>
          /\ n.conf.score = 0
          /\ n.conf.aggregation = "sum"
          /\ Len(n.testcases) > 0
    /\ SomeLeafUses("min")

====
